---- MODULE Spec2Model ----
(***************************************************************************)
(* The AIConversation component of src/App.tsx: the realtime audio         *)
(* session of the Mandarin tutor.  One startSession invocation is an       *)
(* "attempt"; the resources an attempt acquires (microphone stream, the    *)
(* two audio contexts, the capture node, the transport session) carry the  *)
(* attempt's number, and a ref holds 0 for null or the number of the       *)
(* attempt whose resource it refers to.                                    *)
(*                                                                         *)
(* Time is counted in ticks of half a second.  Every event handler is one  *)
(* action; a handler that suspends at an await is one action per segment.  *)
(***************************************************************************)
EXTENDS Integers, Sequences, FiniteSets

\* ---- bounds of the model ------------------------------------------------
MaxAttempts == 2
MaxMsgs == 3
MaxDur == 2
MaxClock == 2
MaxChunks == 1
MaxCaptured == 3
MaxNow == 6

Attempts == 1..MaxAttempts
Durations == 1..MaxDur

VARIABLES
    mounted,                \* the component is in the tree
    micState,               \* useState 'idle' | 'requesting' | 'ready' | 'error'
    status,                 \* useState status line
    error,                  \* useState error message, "null" for null
    liveSpeaker,            \* useState 'ai' | null
    sessionRef,
    streamRef,
    inputAudioContextRef,
    outputAudioContextRef,
    scriptProcessorRef,
    sourcesRef,             \* set of started, not yet ended buffer sources
    nextStartTimeRef,       \* the playback cursor
    liveSpeakerTimeoutRef,  \* id of the last timer armed, 0 for null
    timers,                 \* the timers armed and neither fired nor cleared, each
                            \* with its id and the time it is due
    now,                    \* the time of the page, in ticks
    lastFragmentAt,         \* history: when the last speech fragment was delivered
    lastWasFragment,        \* history: whether the message delivered last was one
    attempts,               \* number of startSession invocations that reached getUserMedia
    pc,                     \* per attempt: where its startSession is suspended
    sessionPromise,         \* per attempt: state of the promise of ai.live.connect
    stream,                 \* per attempt: the MediaStream of getUserMedia
    ictx,                   \* per attempt: the input AudioContext
    octx,                   \* per attempt: the output AudioContext
    node,                   \* per attempt: the ScriptProcessorNode
    sess,                   \* per attempt: the transport session
    releaseCalls,           \* per kind and attempt: number of release calls made
    clock,                  \* per attempt: currentTime of its output context
    continuations,          \* onmessage handlers suspended at the decode await, FIFO
    delivered,              \* number of onmessage invocations so far
    scheduled,              \* history: the buffers started, in the order of source.start
    captured,               \* per attempt: number of chunks captured
    pendingSends,           \* per attempt: chunks waiting on sessionPromise.then
    sent,                   \* per attempt: chunks passed to sendRealtimeInput, in order,
                            \* each with whether its send had waited on the promise
    stoppedPending,         \* history: the attempts whose connect was pending at a stop
    codecIn,                \* the codec under test: the bytes or samples given to it
    codecText,              \* the text encode or createBlob made of them
    codecOut,               \* what decode or decodeAudioData made of that text
    codecPc                 \* how far the codec under test has got

refs == <<sessionRef, streamRef, inputAudioContextRef, outputAudioContextRef,
          scriptProcessorRef>>
resources == <<stream, ictx, octx, node, sess, releaseCalls>>
uiState == <<micState, status, error, liveSpeaker>>
playback == <<sourcesRef, nextStartTimeRef, clock, continuations, delivered, scheduled>>
speaking == <<liveSpeakerTimeoutRef, timers, now>>
capture == <<captured, pendingSends, sent>>
control == <<mounted, attempts, pc, sessionPromise>>
history == <<stoppedPending, lastFragmentAt, lastWasFragment>>
codec == <<codecIn, codecText, codecOut, codecPc>>
component == <<refs, resources, uiState, playback, speaking, capture, control, history>>
vars == <<refs, resources, uiState, playback, speaking, capture, control, history, codec>>

Kinds == {"session", "stream", "node", "ictx", "octx"}

Max(a, b) == IF a < b THEN b ELSE a

\* ---- initial state: the refs and states of lines 529-543 -----------------
ComponentInit ==
    /\ mounted = TRUE
    /\ micState = "idle"
    /\ status = "waiting"
    /\ error = "null"
    /\ liveSpeaker = "null"
    /\ sessionRef = 0
    /\ streamRef = 0
    /\ inputAudioContextRef = 0
    /\ outputAudioContextRef = 0
    /\ scriptProcessorRef = 0
    /\ sourcesRef = {}
    /\ nextStartTimeRef = 0
    /\ liveSpeakerTimeoutRef = 0
    /\ timers = {}
    /\ now = 0
    /\ lastFragmentAt = -1
    /\ lastWasFragment = FALSE
    /\ attempts = 0
    /\ pc = [a \in Attempts |-> "none"]
    /\ sessionPromise = [a \in Attempts |-> "none"]
    /\ stream = [a \in Attempts |-> "none"]
    /\ ictx = [a \in Attempts |-> "none"]
    /\ octx = [a \in Attempts |-> "none"]
    /\ node = [a \in Attempts |-> "none"]
    /\ sess = [a \in Attempts |-> "none"]
    /\ releaseCalls = [k \in Kinds |-> [a \in Attempts |-> 0]]
    /\ clock = [a \in Attempts |-> 0]
    /\ continuations = <<>>
    /\ delivered = 0
    /\ scheduled = <<>>
    /\ captured = [a \in Attempts |-> 0]
    /\ pendingSends = [a \in Attempts |-> <<>>]
    /\ sent = [a \in Attempts |-> <<>>]
    /\ stoppedPending = {}

\* the codec functions are called by the handlers alone: nothing is handed to
\* them before a session runs
Init ==
    /\ ComponentInit
    /\ codecIn = <<>>
    /\ codecText = <<>>
    /\ codecOut = <<>>
    /\ codecPc = "input"

\* ---- the codec functions (lines 14-62) -----------------------------------
MaxBytes == 4
MaxSamples == 2

SeqsUpTo(S, n) == UNION {[1..k -> S] : k \in 0..n}

\* byte values at the edges of the sextets and of the sign bit
SampleBytes == {0, 1, 63, 64, 127, 128, 255}
\* the sequences of those bytes, and the shorter ones with any byte of
\* 0..255 in one place
ByteSeqs ==
    SeqsUpTo(SampleBytes, MaxBytes)
    \cup {[s EXCEPT ![i] = b] :
            s \in SeqsUpTo(SampleBytes, MaxBytes - 1) \ {<<>>}, i \in 1..(MaxBytes - 1),
            b \in 0..255}

\* A text of the base64 alphabet is the sequence of the indices of its
\* characters, 0..63 for A-Z a-z 0-9 + /, and Pad for '='.
Pad == 64

\* a conversion that keeps seven bits of a byte
fromCharCode7Bit(b) == b % 128

\* String.fromCharCode: the UTF-16 code unit of that number
fromCharCode(b) == b % 65536

\* lines 15-19: one code unit per byte
BinaryString(bytes) == [i \in 1..Len(bytes) |-> fromCharCode(bytes[i])]

\* btoa (line 20): three code units make four characters, a last group of one
\* or two is padded.  btoa throws on a code unit above 255, which
\* BinaryString never makes.
RECURSIVE Btoa(_)
Btoa(b) ==
    IF Len(b) = 0 THEN <<>>
    ELSE IF Len(b) = 1
    THEN <<b[1] \div 4, (b[1] % 4) * 16, Pad, Pad>>
    ELSE IF Len(b) = 2
    THEN <<b[1] \div 4, (b[1] % 4) * 16 + b[2] \div 16, (b[2] % 16) * 4, Pad>>
    ELSE <<b[1] \div 4, (b[1] % 4) * 16 + b[2] \div 16,
           (b[2] % 16) * 4 + b[3] \div 64, b[3] % 64>> \o Btoa(SubSeq(b, 4, Len(b)))

encode(bytes) == Btoa(BinaryString(bytes))

\* atob (line 24) first removes one or two padding characters from the end
\* of a text whose length is a multiple of four
StripPadding(t) ==
    IF Len(t) = 0 \/ Len(t) % 4 # 0 THEN t
    ELSE IF t[Len(t)] = Pad /\ t[Len(t) - 1] = Pad THEN SubSeq(t, 1, Len(t) - 2)
    ELSE IF t[Len(t)] = Pad THEN SubSeq(t, 1, Len(t) - 1)
    ELSE t

\* atob throws when what is left has a length of 1 modulo 4 or a character
\* outside the alphabet
AtobThrows(t) ==
    LET d == StripPadding(t)
    IN Len(d) % 4 = 1 \/ \E i \in 1..Len(d) : d[i] \notin 0..63

\* four characters make three code units; of a last group of two or three
\* characters the bits that do not fill a code unit are dropped
RECURSIVE FromSextets(_)
FromSextets(d) ==
    IF Len(d) < 2 THEN <<>>
    ELSE IF Len(d) = 2
    THEN <<d[1] * 4 + d[2] \div 16>>
    ELSE IF Len(d) = 3
    THEN <<d[1] * 4 + d[2] \div 16, (d[2] % 16) * 16 + d[3] \div 4>>
    ELSE <<d[1] * 4 + d[2] \div 16, (d[2] % 16) * 16 + d[3] \div 4,
           (d[3] % 4) * 64 + d[4]>> \o FromSextets(SubSeq(d, 5, Len(d)))

Atob(t) == FromSextets(StripPadding(t))

\* lines 25-30: charCodeAt of each code unit, stored in a Uint8Array
decode(base64) == [i \in 1..Len(Atob(base64)) |-> Atob(base64)[i] % 256]

\* encode is applied to the bytes under test
encodeApplied ==
    /\ codecPc = "input"
    /\ codecText' = encode(codecIn)
    /\ codecPc' = "text"
    /\ UNCHANGED <<codecIn, codecOut, component>>

\* decode is applied to the text; an exception of atob leaves no bytes
decodeApplied ==
    /\ codecPc = "text"
    /\ IF AtobThrows(codecText)
       THEN codecPc' = "thrown" /\ UNCHANGED codecOut
       ELSE codecPc' = "output" /\ codecOut' = decode(codecText)
    /\ UNCHANGED <<codecIn, codecText, component>>

TextCodecInit ==
    /\ ComponentInit
    /\ codecIn \in ByteSeqs
    /\ codecText = <<>>
    /\ codecOut = <<>>
    /\ codecPc = "input"

TextCodecNext == encodeApplied \/ decodeApplied

TextCodecSpec == TextCodecInit /\ [][TextCodecNext]_vars

\* ---- the audio codec (lines 33-62) ---------------------------------------
\* A sample is a number of 1/131072ths, a quarter of a step of the 16-bit
\* scale: -131072 is -1.0 and 131072 is 1.0, all of them values of a
\* Float32Array.  The values are those at the ends of the interval, those
\* within two steps of zero and one half.
SampleValues ==
    {-131072, -131071, -65536, 65536, 131071, 131072} \cup (-7..7)

\* onaudioprocess hands over a buffer of 4096 samples, never an empty one
SampleSeqs == SeqsUpTo(SampleValues, MaxSamples) \ {<<>>}

\* the integer part of n / d, d > 0
Trunc(n, d) == IF n >= 0 THEN n \div d ELSE -((-n) \div d)

\* a store in an Int16Array: the integer modulo 2^16, read as signed
ToInt16(x) == ((x + 32768) % 65536) - 32768

\* line 56: int16[i] = data[i] * 32768; the product of v / 131072 and 32768 is
\* v / 4, and the store drops its fraction
Int16Store(v) == ToInt16(Trunc(v, 4))

\* new Uint8Array(int16.buffer) (line 59): two bytes per sample, low byte first
BufferBytes(ks) ==
    [i \in 1..(2 * Len(ks)) |->
        LET u == ks[(i + 1) \div 2] % 65536
        IN IF i % 2 = 1 THEN u % 256 ELSE u \div 256]

createBlob(data) == encode(BufferBytes([i \in 1..Len(data) |-> Int16Store(data[i])]))

\* new Int16Array(data.buffer) (line 39) throws on an odd number of bytes and
\* createBuffer (line 41) on a buffer of no frame
ViewThrows(bytes) == Len(bytes) % 2 # 0 \/ Len(bytes) = 0

\* the i-th element of the Int16Array over the bytes
Int16At(bytes, i) ==
    LET u == bytes[2 * i - 1] + 256 * bytes[2 * i]
    IN IF u >= 32768 THEN u - 65536 ELSE u

\* lines 39-49 for one channel: each 16-bit integer k becomes k / 32768, which
\* is 4 * k in 1/131072ths
decodeAudioData(bytes) == [i \in 1..(Len(bytes) \div 2) |-> 4 * Int16At(bytes, i)]

\* createBlob is applied to the samples under test
createBlobApplied ==
    /\ codecPc = "input"
    /\ codecText' = createBlob(codecIn)
    /\ codecPc' = "text"
    /\ UNCHANGED <<codecIn, codecOut, component>>

\* decodeAudioData(decode(text), ctx, rate, 1) is applied to the text
decodeAudioDataApplied ==
    /\ codecPc = "text"
    /\ IF AtobThrows(codecText) \/ ViewThrows(decode(codecText))
       THEN codecPc' = "thrown" /\ UNCHANGED codecOut
       ELSE codecPc' = "output" /\ codecOut' = decodeAudioData(decode(codecText))
    /\ UNCHANGED <<codecIn, codecText, component>>

PcmCodecInit ==
    /\ ComponentInit
    /\ codecIn \in SampleSeqs
    /\ codecText = <<>>
    /\ codecOut = <<>>
    /\ codecPc = "input"

PcmCodecNext == createBlobApplied \/ decodeAudioDataApplied

PcmCodecSpec == PcmCodecInit /\ [][PcmCodecNext]_vars

\* ---- React state setters: a setter of an unmounted component is a no-op --
SetMicState(v) == micState' = IF mounted THEN v ELSE micState
SetStatus(v) == status' = IF mounted THEN v ELSE status
SetError(v) == error' = IF mounted THEN v ELSE error
SetLiveSpeaker(v) == liveSpeaker' = IF mounted THEN v ELSE liveSpeaker

\* ---- cleanup (lines 553-578) as a function of the handles and resources --
\* The record d holds the five refs, the five resource maps and the count of
\* release calls.  speechSynthesis.cancel() holds no state of this component.
Devices ==
    [sessionRef |-> sessionRef, streamRef |-> streamRef,
     inputAudioContextRef |-> inputAudioContextRef,
     outputAudioContextRef |-> outputAudioContextRef,
     scriptProcessorRef |-> scriptProcessorRef,
     stream |-> stream, ictx |-> ictx, octx |-> octx, node |-> node, sess |-> sess,
     releaseCalls |-> releaseCalls]

\* session.close(): a connecting or open socket starts closing; close() on a
\* socket that already failed, is closing or is closed changes nothing.
CloseSession(s) == IF s \in {"connecting", "open"} THEN "closing" ELSE s

Called(rc, k, a) == [rc EXCEPT ![k][a] = @ + 1]

\* the session closed and its handle left in the ref
cleanupSessionKeepsRef(d) ==
    IF d.sessionRef # 0
    THEN [d EXCEPT !.sess[d.sessionRef] = CloseSession(@),
                   !.releaseCalls = Called(@, "session", d.sessionRef)]
    ELSE d

cleanupSession(d) ==
    IF d.sessionRef # 0
    THEN [d EXCEPT !.sess[d.sessionRef] = CloseSession(@),
                   !.releaseCalls = Called(@, "session", d.sessionRef),
                   !.sessionRef = 0]
    ELSE d

cleanupStream(d) ==
    IF d.streamRef # 0
    THEN [d EXCEPT !.stream[d.streamRef] = "stopped",
                   !.releaseCalls = Called(@, "stream", d.streamRef),
                   !.streamRef = 0]
    ELSE d

cleanupScriptProcessor(d) ==
    IF d.scriptProcessorRef # 0
    THEN [d EXCEPT !.node[d.scriptProcessorRef] = "disconnected",
                   !.releaseCalls = Called(@, "node", d.scriptProcessorRef),
                   !.scriptProcessorRef = 0]
    ELSE d

cleanupInputContext(d) ==
    IF d.inputAudioContextRef # 0
    THEN [d EXCEPT !.ictx[d.inputAudioContextRef] = "closed",
                   !.releaseCalls = Called(@, "ictx", d.inputAudioContextRef),
                   !.inputAudioContextRef = 0]
    ELSE d

cleanupOutputContext(d) ==
    IF d.outputAudioContextRef # 0
    THEN [d EXCEPT !.octx[d.outputAudioContextRef] = "closed",
                   !.releaseCalls = Called(@, "octx", d.outputAudioContextRef),
                   !.outputAudioContextRef = 0]
    ELSE d

\* a teardown whose first step fails on an absent session and ends it there
cleanupStopsAtAbsentSession(d) ==
    IF d.sessionRef = 0 THEN d
    ELSE cleanupOutputContext(cleanupInputContext(cleanupScriptProcessor(
            cleanupStream(cleanupSession(d)))))

\* lines 553-578: the five steps, each behind its own test of the ref
cleanup(d) ==
    cleanupOutputContext(cleanupInputContext(cleanupScriptProcessor(
        cleanupStream(cleanupSession(d)))))

\* the variables take the values of the record n
SetDevices(n) ==
    /\ sessionRef' = n.sessionRef
    /\ streamRef' = n.streamRef
    /\ inputAudioContextRef' = n.inputAudioContextRef
    /\ outputAudioContextRef' = n.outputAudioContextRef
    /\ scriptProcessorRef' = n.scriptProcessorRef
    /\ stream' = n.stream
    /\ ictx' = n.ictx
    /\ octx' = n.octx
    /\ node' = n.node
    /\ sess' = n.sess
    /\ releaseCalls' = n.releaseCalls

\* ---- the controls rendered (lines 773-791) --------------------------------
\* the start control rendered in the idle state alone
StartButtonOnlyWhenIdle == mounted /\ micState = "idle"

StartButtonShown == mounted /\ micState \in {"idle", "error"}
\* the stop control rendered in the ready state alone
StopButtonOnlyWhenReady == mounted /\ micState = "ready"

StopButtonShown == mounted /\ micState \notin {"idle", "error"}

\* ---- startSession, up to its first await (lines 587-607) ------------------
\* a start that takes every key for configured
ApiKeyNeverMissing(apiKeyOk) == FALSE

\* line 593: neither the stored key nor the environment gives a key
ApiKeyMissing(apiKeyOk) == ~apiKeyOk

\* a start that takes every lesson for scripted
PromptsNeverMissing(lessonOk) == FALSE

\* line 600: AI_CONVERSATION_PROMPTS has no entry for the lesson
PromptsMissing(lessonOk) == ~lessonOk

startSession(apiKeyOk, lessonOk) ==
    /\ StartButtonShown
    /\ IF ApiKeyMissing(apiKeyOk)
       THEN /\ error' = "no api key"
            /\ micState' = "error"
            /\ UNCHANGED <<attempts, pc>>
       ELSE IF PromptsMissing(lessonOk)
       THEN /\ error' = "no lesson content"
            /\ micState' = "error"
            /\ UNCHANGED <<attempts, pc>>
       ELSE /\ attempts < MaxAttempts
            /\ error' = "null"
            /\ micState' = "requesting"
            /\ attempts' = attempts + 1
            /\ pc' = [pc EXCEPT ![attempts + 1] = "getUserMedia"]
    /\ UNCHANGED <<history, codec, status, liveSpeaker, refs, resources, playback, speaking, capture,
                   mounted, sessionPromise>>

\* getUserMedia resolved: lines 607-647, up to the await of line 718
getUserMediaResolved(a) ==
    /\ pc[a] = "getUserMedia"
    /\ stream' = [stream EXCEPT ![a] = "live"]
    /\ streamRef' = a
    /\ SetStatus("connecting to AI")
    /\ SetMicState("ready")
    /\ ictx' = [ictx EXCEPT ![a] = "running"]
    /\ inputAudioContextRef' = a
    /\ octx' = [octx EXCEPT ![a] = "running"]
    /\ outputAudioContextRef' = a
    /\ sess' = [sess EXCEPT ![a] = "connecting"]
    /\ sessionPromise' = [sessionPromise EXCEPT ![a] = "pending"]
    /\ pc' = [pc EXCEPT ![a] = "connect"]
    /\ UNCHANGED <<history, codec, error, liveSpeaker, sessionRef, scriptProcessorRef, node, releaseCalls,
                   playback, speaking, capture, mounted, attempts>>

\* getUserMedia rejected: the catch of lines 720-724
getUserMediaRejected(a) ==
    /\ pc[a] = "getUserMedia"
    /\ SetError("cannot start recording")
    /\ SetMicState("error")
    /\ pc' = [pc EXCEPT ![a] = "done"]
    /\ UNCHANGED <<history, codec, status, liveSpeaker, refs, resources, playback, speaking, capture,
                   mounted, attempts, sessionPromise>>

\* ---- transport callbacks (lines 657-715) ---------------------------------
\* The transport is the @google/genai live client: it fires onopen once the
\* socket is open and fulfils the promise of connect after that; it may fire
\* onerror while the socket is connecting or open, and onclose once the
\* socket has closed, whether the remote end, a failure or session.close()
\* closed it.

\* onopen (lines 657-673): wires the capture node of this attempt's closure.
\* It uses the inputAudioContext and localStream of the closure, not the refs,
\* so it also runs after cleanup closed them; creating nodes on a closed
\* context does not throw.
onopen(a) ==
    /\ sess[a] = "connecting"
    /\ sess' = [sess EXCEPT ![a] = "open"]
    /\ SetStatus("connected")
    /\ node' = [node EXCEPT ![a] = "connected"]
    /\ scriptProcessorRef' = a
    /\ UNCHANGED <<history, codec, micState, error, liveSpeaker, sessionRef, streamRef,
                   inputAudioContextRef, outputAudioContextRef, stream, ictx, octx,
                   releaseCalls, playback, speaking, capture, control>>

\* the deferred sends run, the one registered last first
FlushSendsLastFirst(a) ==
    /\ sent' = [sent EXCEPT ![a] = @ \o
            [i \in 1..Len(pendingSends[a]) |->
                [chunk |-> pendingSends[a][Len(pendingSends[a]) + 1 - i],
                 queued |-> TRUE]]]
    /\ pendingSends' = [pendingSends EXCEPT ![a] = <<>>]

\* the sends deferred by sessionPromise.then run in the order registered
FlushSends(a) ==
    /\ sent' = [sent EXCEPT ![a] = @ \o
            [i \in 1..Len(pendingSends[a]) |->
                [chunk |-> pendingSends[a][i], queued |-> TRUE]]]
    /\ pendingSends' = [pendingSends EXCEPT ![a] = <<>>]

\* the promise of connect is fulfilled: the continuation of line 718 stores
\* the handle, then the deferred sends of line 666 run
connectResolved(a) ==
    /\ pc[a] = "connect"
    /\ sessionPromise[a] = "pending"
    /\ node[a] # "none"
    /\ sessionPromise' = [sessionPromise EXCEPT ![a] = "fulfilled"]
    /\ sessionRef' = a
    /\ pc' = [pc EXCEPT ![a] = "done"]
    /\ FlushSends(a)
    /\ UNCHANGED <<history, codec, uiState, streamRef, inputAudioContextRef, outputAudioContextRef,
                   scriptProcessorRef, resources, playback, speaking, captured,
                   mounted, attempts>>

\* the promise of connect is rejected before a socket opened: the catch of
\* lines 720-724
connectRejected(a) ==
    /\ pc[a] = "connect"
    /\ sessionPromise[a] = "pending"
    /\ sess[a] = "connecting"
    /\ sessionPromise' = [sessionPromise EXCEPT ![a] = "rejected"]
    /\ sess' = [sess EXCEPT ![a] = "closed"]
    /\ SetError("connect failed")
    /\ SetMicState("error")
    /\ pc' = [pc EXCEPT ![a] = "done"]
    /\ UNCHANGED <<history, codec, status, liveSpeaker, refs, stream, ictx, octx, node, releaseCalls,
                   playback, speaking, capture, mounted, attempts>>

\* onerror (lines 710-714)
onerror(a) ==
    /\ sess[a] \in {"connecting", "open"}
    /\ sess' = [sess EXCEPT ![a] = "failed"]
    /\ SetError("AI connection error")
    /\ SetMicState("error")
    /\ UNCHANGED <<history, codec, status, liveSpeaker, refs, stream, ictx, octx, node, releaseCalls,
                   playback, speaking, capture, control>>

\* onclose (lines 706-709)
onclose(a) ==
    /\ sess[a] \in {"open", "closing", "failed"}
    /\ sess' = [sess EXCEPT ![a] = "closed"]
    /\ SetStatus("disconnected")
    /\ SetMicState("idle")
    /\ UNCHANGED <<history, codec, error, liveSpeaker, refs, stream, ictx, octx, node, releaseCalls,
                   playback, speaking, capture, control>>

\* ---- capture (lines 663-669) ----------------------------------------------
\* a capture callback that calls the send whatever the state of the promise
onaudioprocessSendsAtOnce(a) ==
    /\ node[a] = "connected"
    /\ ictx[a] = "running"
    /\ captured[a] < MaxCaptured
    /\ captured' = [captured EXCEPT ![a] = @ + 1]
    /\ sent' = [sent EXCEPT ![a] =
            Append(@, [chunk |-> captured[a] + 1, queued |-> FALSE])]
    /\ UNCHANGED <<pendingSends, history, codec, uiState, refs, resources, playback,
                   speaking, control>>

\* onaudioprocess fires while the node is connected in a running context; the
\* send runs at once when the promise is fulfilled and waits on it otherwise
onaudioprocess(a) ==
    /\ node[a] = "connected"
    /\ ictx[a] = "running"
    /\ captured[a] < MaxCaptured
    /\ captured' = [captured EXCEPT ![a] = @ + 1]
    /\ IF sessionPromise[a] = "fulfilled"
       THEN /\ sent' = [sent EXCEPT ![a] =
                    Append(@, [chunk |-> captured[a] + 1, queued |-> FALSE])]
            /\ UNCHANGED pendingSends
       ELSE /\ pendingSends' = [pendingSends EXCEPT ![a] = Append(@, captured[a] + 1)]
            /\ UNCHANGED sent
    /\ UNCHANGED <<history, codec, uiState, refs, resources, playback, speaking, control>>

\* ---- playback (lines 674-705) ----------------------------------------------
\* An inbound message: its inline audio ("none"; "badText" for a payload that
\* is not base64; "badLength" for one of an odd number of bytes; "pcm" with
\* the duration of the decoded buffer), whether it
\* carries a model turn, and its turnComplete flag.  Inline audio is a part of
\* a model turn (line 677).
Messages ==
    [audio : {"none"}, duration : {0}, modelTurn : BOOLEAN, turnComplete : BOOLEAN]
    \cup [audio : {"badText", "badLength"}, duration : {0}, modelTurn : {TRUE},
          turnComplete : BOOLEAN]
    \cup [audio : {"pcm"}, duration : Durations, modelTurn : {TRUE},
          turnComplete : BOOLEAN]

\* the delay of the timer of line 701, 2000 ms, in ticks
TimeoutTicks == 4

\* line 698: a model turn that is not complete is a fragment of speech
Fragment(m) == m.modelTurn /\ ~m.turnComplete

\* lines 700-701: the timer in the ref is cleared and the new one armed
Rearmed(pending, ref, t) == {x \in pending : x.id # ref} \cup {t}

\* lines 698-704: the speaking indicator and its timer; id names a new timer
speakingIndicator(m, id) ==
    IF Fragment(m)
    THEN /\ SetLiveSpeaker("ai")
         /\ timers' = Rearmed(timers, liveSpeakerTimeoutRef,
                              [id |-> id, due |-> now + TimeoutTicks])
         /\ liveSpeakerTimeoutRef' = id
         /\ UNCHANGED now
    ELSE IF m.turnComplete
    THEN /\ SetLiveSpeaker("null")
         /\ UNCHANGED speaking
    ELSE UNCHANGED <<liveSpeaker, speaking>>

\* the timer of line 701 fires
timerFired(t) ==
    /\ t \in timers
    /\ now >= t.due
    /\ timers' = timers \ {t}
    /\ SetLiveSpeaker("null")
    /\ UNCHANGED <<history, codec, micState, status, error, refs, resources, playback,
                   liveSpeakerTimeoutRef, now, capture, control>>

\* time passes; a timer that is due fires before it passes further
timePassed ==
    /\ now < MaxNow
    /\ \A t \in timers : now < t.due
    /\ now' = now + 1
    /\ UNCHANGED <<history, codec, uiState, refs, resources, playback,
                   liveSpeakerTimeoutRef, timers, capture, control>>

\* line 24: atob throws on a text that is not base64; the exception leaves
\* decode and, decode(audioData) being an argument of line 680, the handler
DecodeThrows(m) == m.audio = "badText"

\* a view constructor that takes a byte sequence of any length
DecodeAudioDataNeverThrows(m) == FALSE

\* line 39: new Int16Array(data.buffer) throws a RangeError when the byte
\* length is odd; decodeAudioData being async, its promise is rejected and
\* the await of line 680 throws when the handler resumes
DecodeAudioDataThrows(m) == m.audio = "badLength"

\* onmessage up to the await of line 680 (or to its end when it schedules no
\* audio).  Messages are delivered while the socket is open or closing.  The
\* handler is async: an exception in it rejects the promise it returned,
\* which the transport does not look at.
onmessage(a, m) ==
    /\ sess[a] \in {"open", "closing"}
    /\ delivered < MaxMsgs
    /\ delivered' = delivered + 1
    /\ IF m.audio # "none" /\ outputAudioContextRef # 0
       THEN /\ continuations' =
                    IF DecodeThrows(m) THEN continuations
                    ELSE Append(continuations,
                            [sess |-> a, id |-> delivered + 1,
                             ctx |-> outputAudioContextRef, msg |-> m])
            /\ UNCHANGED <<liveSpeaker, speaking>>
       ELSE /\ speakingIndicator(m, delivered + 1)
            /\ UNCHANGED continuations
    /\ lastFragmentAt' = IF Fragment(m) THEN now ELSE lastFragmentAt
    /\ lastWasFragment' = Fragment(m)
    /\ UNCHANGED <<stoppedPending, codec, micState, status, error, refs, resources, sourcesRef,
                   nextStartTimeRef, clock, scheduled, capture, control>>

\* a scheduler that resumes the handler suspended last
ResumeLatest(q) == Len(q)

\* which suspended handler resumes: decodeAudioData has no await of its own,
\* so the promises settle in the order of the calls and the awaits of line
\* 680 resume in that order
NextContinuation(q) == 1

RemoveAt(q, i) == SubSeq(q, 1, i - 1) \o SubSeq(q, i + 1, Len(q))

\* the buffer started at the clock time whatever the cursor
StartAtCurrentTime(cursor, currentTime) == currentTime

\* lines 685-689: where the buffer starts
StartTime(cursor, currentTime) == IF cursor < currentTime THEN currentTime ELSE cursor

\* the cursor left at the start of the buffer
CursorNotAdvanced(start, duration) == start

\* line 690: the cursor after the buffer was started at time start
AdvanceCursor(start, duration) == start + duration

\* onmessage from the await of line 680 to its end
onmessageResumed ==
    /\ continuations # <<>>
    /\ LET i == NextContinuation(continuations)
           c == continuations[i]
       IN /\ continuations' = RemoveAt(continuations, i)
          /\ IF DecodeAudioDataThrows(c.msg)
             THEN \* the await throws: the handler ends at line 680
                  UNCHANGED <<sourcesRef, nextStartTimeRef, scheduled, liveSpeaker,
                              speaking>>
             ELSE LET start == StartTime(nextStartTimeRef, clock[c.ctx])
                  IN /\ nextStartTimeRef' = AdvanceCursor(start, c.msg.duration)
                     /\ sourcesRef' = sourcesRef \cup
                            {[id |-> c.id, ctx |-> c.ctx, end |-> start + c.msg.duration]}
                     /\ scheduled' = Append(scheduled,
                            [sess |-> c.sess, id |-> c.id, ctx |-> c.ctx,
                             start |-> start, duration |-> c.msg.duration,
                             currentTime |-> clock[c.ctx],
                             running |-> octx[c.ctx] = "running",
                             cursorBefore |-> nextStartTimeRef,
                             cursorAfter |-> nextStartTimeRef'])
                     /\ speakingIndicator(c.msg, c.id)
    /\ UNCHANGED <<history, codec, micState, status, error, refs, resources, clock, delivered, capture,
                   control>>

\* source.onended (lines 693-695): the buffer has played to its end
onended(s) ==
    /\ s \in sourcesRef
    /\ octx[s.ctx] = "running"
    /\ clock[s.ctx] >= s.end
    /\ sourcesRef' = sourcesRef \ {s}
    /\ UNCHANGED <<history, codec, uiState, refs, resources, nextStartTimeRef, clock, continuations,
                   delivered, scheduled, speaking, capture, control>>

\* the clock of a running output context advances
clockAdvanced(a) ==
    /\ octx[a] = "running"
    /\ clock[a] < MaxClock
    /\ clock' = [clock EXCEPT ![a] = @ + 1]
    /\ UNCHANGED <<history, codec, uiState, refs, resources, sourcesRef, nextStartTimeRef, continuations,
                   delivered, scheduled, speaking, capture, control>>

\* the attempts suspended at the await of line 718
PendingConnects == {a \in Attempts : pc[a] = "connect" /\ sessionPromise[a] = "pending"}

\* the attempts suspended at the await of line 607
PendingPermissions == {a \in Attempts : pc[a] = "getUserMedia"}

\* ---- stopSession (lines 727-731) and the unmount effect (lines 581-585) --
\* stopSession without its setMicState('idle')
stopSessionKeepsState ==
    /\ StopButtonShown
    /\ SetDevices(cleanup(Devices))
    /\ status' = "stopped"
    /\ stoppedPending' = stoppedPending \cup PendingConnects
    /\ UNCHANGED <<lastFragmentAt, lastWasFragment, codec, micState, error, liveSpeaker, playback, speaking,
                   capture, control>>

stopSession ==
    /\ StopButtonShown
    /\ SetDevices(cleanup(Devices))
    /\ status' = "stopped"
    /\ micState' = "idle"
    /\ stoppedPending' = stoppedPending \cup PendingConnects
    /\ UNCHANGED <<lastFragmentAt, lastWasFragment, codec, error, liveSpeaker, playback, speaking, capture,
                   control>>

Unmount ==
    /\ mounted
    /\ mounted' = FALSE
    /\ SetDevices(cleanup(Devices))
    /\ UNCHANGED <<history, codec, uiState, playback, speaking, capture, attempts, pc, sessionPromise>>

\* ---- the session state machine: start, stop, transport and capture events --
\* The playback steps are left to PlaybackSpec: they write only the playback
\* variables, liveSpeaker and the timers, which no step below reads.
Next ==
    \/ \E k \in BOOLEAN, l \in BOOLEAN : startSession(k, l)
    \/ \E a \in Attempts : getUserMediaResolved(a)
    \/ \E a \in Attempts : getUserMediaRejected(a)
    \/ \E a \in Attempts : onopen(a)
    \/ \E a \in Attempts : connectResolved(a)
    \/ \E a \in Attempts : connectRejected(a)
    \/ \E a \in Attempts : onerror(a)
    \/ \E a \in Attempts : onclose(a)
    \/ \E a \in Attempts : captured[a] < MaxChunks /\ onaudioprocess(a)
    \/ stopSession
    \/ Unmount

Spec == Init /\ [][Next]_vars

\* ---- the playback path under sessions that start, open, stop and restart --
\* Inbound audio messages with the session events that decide which output
\* context is current and which sessions deliver.  The steps left out write
\* none of the playback variables; the fulfilment of connect only decides
\* whether cleanup moves a socket from open to closing, and messages are
\* delivered in both.
AudioMessages == {m \in Messages : m.audio = "pcm" /\ ~m.turnComplete}

PlaybackNext ==
    \/ startSession(TRUE, TRUE)
    \/ \E a \in Attempts : getUserMediaResolved(a)
    \/ \E a \in Attempts : onopen(a)
    \/ \E a \in Attempts : onclose(a)
    \/ \E a \in Attempts, m \in AudioMessages : onmessage(a, m)
    \/ onmessageResumed
    \/ \E a \in Attempts : clockAdvanced(a)
    \/ stopSession

PlaybackSpec == Init /\ [][PlaybackNext]_vars

\* ---- capture in one session ------------------------------------------------
\* One attempt that is started, granted and opened, its connect fulfilled at
\* any moment, with capture callbacks and inbound audio messages interleaved.
CaptureNext ==
    \/ attempts = 0 /\ startSession(TRUE, TRUE)
    \/ \E a \in Attempts : getUserMediaResolved(a)
    \/ \E a \in Attempts : onopen(a)
    \/ \E a \in Attempts : connectResolved(a)
    \/ \E a \in Attempts : onaudioprocess(a)
    \/ \E a \in Attempts, m \in AudioMessages : onmessage(a, m)
    \/ onmessageResumed

CaptureSpec == Init /\ [][CaptureNext]_vars

\* ---- playback to its end ---------------------------------------------------
\* One attempt whose buffers play out: the clock of a running context goes
\* on and a buffer that has played to its end in a running context fires
\* onended.  The promise of decodeAudioData is settled when line 680 awaits
\* it, so here a suspended handler resumes before another event is taken.
\* The output context is closed by stopSession alone.
PlayoutNext ==
    \/ onmessageResumed
    \/ continuations = <<>> /\ attempts = 0 /\ startSession(TRUE, TRUE)
    \/ continuations = <<>> /\ \E a \in Attempts : getUserMediaResolved(a)
    \/ continuations = <<>> /\ \E a \in Attempts : onopen(a)
    \/ continuations = <<>> /\ \E a \in Attempts, m \in AudioMessages : onmessage(a, m)
    \/ continuations = <<>> /\ \E a \in Attempts : clockAdvanced(a)
    \/ continuations = <<>> /\ \E s \in sourcesRef : onended(s)
    \/ continuations = <<>> /\ stopSession

PlayoutSpec ==
    /\ Init
    /\ [][PlayoutNext]_vars
    /\ WF_vars(onmessageResumed)
    /\ WF_vars(\E a \in Attempts : clockAdvanced(a))
    /\ WF_vars(\E s \in sourcesRef : onended(s))

\* ---- the speaking indicator in one session -------------------------------
\* Messages of every kind, the time of the page and the timer of line 701.
\* A suspended handler resumes before another event is taken, as in
\* PlayoutSpec.
SpeakingNext ==
    \/ onmessageResumed
    \/ continuations = <<>> /\ attempts = 0 /\ startSession(TRUE, TRUE)
    \/ continuations = <<>> /\ \E a \in Attempts : getUserMediaResolved(a)
    \/ continuations = <<>> /\ \E a \in Attempts : onopen(a)
    \/ continuations = <<>> /\ \E a \in Attempts, m \in Messages : onmessage(a, m)
    \/ continuations = <<>> /\ \E t \in timers : timerFired(t)
    \/ continuations = <<>> /\ timePassed
    \/ continuations = <<>> /\ stopSession

SpeakingSpec == Init /\ [][SpeakingNext]_vars

\* ---- one session receiving well-formed and malformed audio ---------------
\* The messages that carry an audio payload, malformed ones included.  One
\* attempt is started and stays open, so that what a malformed payload does
\* to the scheduling is seen on its own; restarts are in PlaybackSpec.
PayloadMessages == {m \in Messages : m.audio # "none"}

DecodeNext ==
    \/ attempts = 0 /\ startSession(TRUE, TRUE)
    \/ \E a \in Attempts : getUserMediaResolved(a)
    \/ \E a \in Attempts : onopen(a)
    \/ \E a \in Attempts, m \in PayloadMessages : onmessage(a, m)
    \/ onmessageResumed
    \/ \E a \in Attempts : clockAdvanced(a)

DecodeSpec == Init /\ [][DecodeNext]_vars

\* ==== claims ================================================================

\* C1: the playback cursor nextStartTimeRef never decreases: every step, of
\* any inbound audio message, clock advance, stop or restart, leaves it
\* greater than or equal to its previous value.
CursorNeverDecreases == [][nextStartTimeRef' >= nextStartTimeRef]_vars

\* a buffer of the second session was started while the cursor left by the
\* first session was ahead of the clock of its output context
CursorAheadAfterRestart ==
    \E i \in 1..Len(scheduled) :
        /\ scheduled[i].sess = 2
        /\ scheduled[i].currentTime < scheduled[i].cursorBefore
        /\ \E j \in 1..(i - 1) : scheduled[j].sess = 1

\* C2: the buffers of one session are started in the order in which the
\* transport delivered their messages, although each handler suspends before
\* it schedules, and no two of them overlap: for A started before B,
\* A was delivered before B, start(A) <= start(B) and
\* start(B) >= start(A) + duration(A).
ScheduledInDeliveryOrder ==
    \A i, j \in 1..Len(scheduled) :
        (i < j /\ scheduled[i].sess = scheduled[j].sess) =>
            /\ scheduled[i].id < scheduled[j].id
            /\ scheduled[i].start <= scheduled[j].start
            /\ scheduled[j].start >= scheduled[i].start + scheduled[i].duration

\* three buffers A, B, C of one session were started, each at the end of the
\* one before it
ThreeChunksScheduled ==
    /\ Len(scheduled) = 3
    /\ \A i \in 1..3 : scheduled[i].sess = 1
    /\ scheduled[2].start = scheduled[1].start + scheduled[1].duration
    /\ scheduled[3].start = scheduled[2].start + scheduled[2].duration

\* C3: each buffer is started at max(clock of its output context, cursor
\* before), and the cursor afterwards is that start plus the duration of the
\* buffer; so a buffer that arrives while the clock has not passed the end of
\* the buffer before it starts exactly at that end.
StartsAtMaxOfClockAndCursor ==
    /\ \A i \in 1..Len(scheduled) :
        /\ scheduled[i].start = Max(scheduled[i].currentTime, scheduled[i].cursorBefore)
        /\ scheduled[i].cursorAfter = scheduled[i].start + scheduled[i].duration
    /\ \A i \in 1..(Len(scheduled) - 1) :
        scheduled[i + 1].currentTime <= scheduled[i].start + scheduled[i].duration
            => scheduled[i + 1].start = scheduled[i].start + scheduled[i].duration

\* a chunk of 1.0 s (two ticks) and then one of 0.5 s (one tick) were started,
\* the clock not past the end of the first
BackToBackChunks ==
    /\ Len(scheduled) >= 2
    /\ scheduled[1].duration = 2
    /\ scheduled[2].duration = 1
    /\ scheduled[2].currentTime <= scheduled[1].start + 2
    /\ scheduled[2].start = scheduled[1].start + 2

\* ---- what it is for the component to hold no resource ----------------------
RefsAllNull ==
    /\ sessionRef = 0
    /\ streamRef = 0
    /\ scriptProcessorRef = 0
    /\ inputAudioContextRef = 0
    /\ outputAudioContextRef = 0

NoResourceHeld ==
    /\ RefsAllNull
    /\ \A a \in Attempts :
        /\ stream[a] # "live"
        /\ node[a] # "connected"
        /\ ictx[a] # "running"
        /\ octx[a] # "running"
        /\ sess[a] # "open"

\* C4: when stop ran while the connect of an attempt was pending, the later
\* onopen and the later fulfilment of that connect have no effect: the capture
\* node is not wired, no handle is stored in sessionRef, no chunk is sent and
\* the conversation state is left as it is.
LateConnectHasNoEffect ==
    [][\A a \in stoppedPending :
        (onopen(a) \/ connectResolved(a)) =>
            /\ node' = node
            /\ scriptProcessorRef' = scriptProcessorRef
            /\ sessionRef' = sessionRef
            /\ sent' = sent
            /\ micState' = micState]_vars

\* C5: whenever the conversation state is error, no resource is held.
ErrorHoldsNoResource == micState = "error" => NoResourceHeld

\* C6: whenever the conversation state is idle, no resource is held.
IdleHoldsNoResource == micState = "idle" => NoResourceHeld

\* C7: there are never two transport sessions opened and not yet closed, nor
\* two live microphone streams.
AtMostOneSessionOpen ==
    /\ Cardinality({a \in Attempts : sess[a] = "open"}) <= 1
    /\ Cardinality({a \in Attempts : stream[a] = "live"}) <= 1

\* C8: after disposal no resource ever acquired remains unreleased, and no
\* resource is released twice.
ReleasedExactlyOnce ==
    /\ ~mounted =>
        \A a \in Attempts :
            /\ stream[a] # "live"
            /\ node[a] # "connected"
            /\ ictx[a] # "running"
            /\ octx[a] # "running"
            /\ sess[a] \notin {"connecting", "open"}
    /\ \A k \in Kinds, a \in Attempts : releaseCalls[k][a] <= 1

\* C9: teardown is idempotent: from every reachable state, a second cleanup
\* right after a first makes no release call and leaves the handles and the
\* resources as the first left them.
CleanupIdempotent == cleanup(cleanup(Devices)) = cleanup(Devices)

\* stop released the five resources of the one attempt, then the unmount
\* effect ran cleanup again and every resource is still released once
CleanupRanTwice ==
    /\ ~mounted
    /\ status = "stopped"
    /\ attempts = 1
    /\ sessionPromise[1] = "fulfilled"
    /\ \A k \in Kinds : releaseCalls[k][1] = 1

\* C10 as stated: stop can be invoked from every state but idle.
StopFromAnyNonIdleState == (mounted /\ micState # "idle") => ENABLED stopSession

\* C10 as amended: stop can be invoked from requesting-permission and from
\* ready; it releases every handle held and returns the state to idle.
StopFromRequestingOrReady ==
    /\ [](mounted /\ micState \in {"requesting", "ready"} => ENABLED stopSession)
    /\ [][stopSession => (micState' = "idle" /\ RefsAllNull')]_vars

\* stop was invoked in the ready state and released the stream of attempt 1
StoppedFromReady ==
    /\ mounted
    /\ micState = "idle"
    /\ status = "stopped"
    /\ stream[1] = "stopped"
    /\ releaseCalls["stream"][1] = 1

\* C11: the error state is terminal for the attempt: once the conversation
\* state is error, only a start by the user moves it out of error; no
\* transport callback and no late completion does.
ErrorIsTerminal ==
    [][micState = "error" =>
        (micState' = "error" \/ \E k, l \in BOOLEAN : startSession(k, l))]_vars

\* C12 as stated: in every state where micState is 'ready', the session has
\* been opened and a capture node exists.
ReadyOnlyAfterOpen ==
    micState = "ready" =>
        \E a \in Attempts : sess[a] \in {"open", "closing"} /\ node[a] # "none"

\* C12 as amended: micState is 'ready' from the grant of the microphone on: in
\* every state of the mounted component where it is 'ready', streamRef holds a
\* live microphone stream and connect was issued for that attempt.
ReadyOnceMicrophoneGranted ==
    (mounted /\ micState = "ready") =>
        /\ streamRef # 0
        /\ stream[streamRef] = "live"
        /\ sess[streamRef] # "none"

\* ready while the socket is still connecting and no capture node exists
ReadyBeforeOpen ==
    /\ mounted
    /\ micState = "ready"
    /\ sess[1] = "connecting"
    /\ node[1] = "none"

\* what an attempt acquires: a permission request, a stream, the contexts, a
\* capture node, a session, a handle in a ref
NothingAcquiredByStep ==
    UNCHANGED <<attempts, pc, sessionPromise, stream, ictx, octx, node, sess, refs>>

\* C13: a start with a valid key for a lesson that has no prompt script moves
\* the state to error at once, with a message, without requesting the
\* microphone and without acquiring a stream, a context or a session; a
\* teardown right after it, nothing having been held before, makes no
\* stream-stop call.
UnknownLessonAcquiresNothing ==
    [][startSession(TRUE, FALSE) =>
        /\ micState' = "error"
        /\ error' = "no lesson content"
        /\ NothingAcquiredByStep
        /\ (streamRef = 0 =>
                cleanup(Devices)'.releaseCalls["stream"] = releaseCalls["stream"])]_vars

\* the unknown lesson was refused, the component was then unmounted, and no
\* stream-stop call was ever made
UnknownLessonThenTeardown ==
    /\ ~mounted
    /\ micState = "error"
    /\ error = "no lesson content"
    /\ attempts = 0
    /\ \A a \in Attempts : releaseCalls["stream"][a] = 0

\* C14: a start without an API key moves the state to error before anything
\* is acquired: no permission request is issued and no stream, context or
\* session is created, whether or not the lesson has a script.
MissingKeyAcquiresNothing ==
    [][(\E l \in BOOLEAN : startSession(FALSE, l)) =>
        /\ micState' = "error"
        /\ error' = "no api key"
        /\ NothingAcquiredByStep]_vars

\* the start without a key was refused and nothing was requested
MissingKeyRefused ==
    /\ micState = "error"
    /\ error = "no api key"
    /\ attempts = 0
    /\ \A a \in Attempts : pc[a] = "none" /\ stream[a] = "none" /\ sess[a] = "none"

\* attempt a holds no stream, context, capture node or session, and no ref
\* holds a handle of it
AttemptHoldsNothing(a) ==
    /\ stream[a] = "none" /\ ictx[a] = "none" /\ octx[a] = "none"
    /\ node[a] = "none" /\ sess[a] = "none" /\ sessionPromise[a] = "none"
    /\ a \notin {sessionRef, streamRef, inputAudioContextRef,
                 outputAudioContextRef, scriptProcessorRef}

\* C15: when the permission request of an attempt is refused, the state
\* becomes error with a message, the attempt holds no resource, and the start
\* control is offered again; a start from the error state begins a fresh
\* attempt: a new permission request, state requesting, message cleared.
RefusalIsRecoverable ==
    [][/\ \A a \in Attempts : (mounted /\ getUserMediaRejected(a)) =>
            /\ micState' = "error"
            /\ error' \notin {"null", ""}
            /\ AttemptHoldsNothing(a)'
            /\ StartButtonShown'
       /\ (micState = "error" /\ startSession(TRUE, TRUE)) =>
            /\ micState' = "requesting"
            /\ error' = "null"
            /\ attempts' = attempts + 1
            /\ \A n \in Attempts : n = attempts + 1 =>
                    pc'[n] = "getUserMedia" /\ AttemptHoldsNothing(n)']_vars

\* the first request was refused and the retry is asking for permission
RetryAfterRefusal ==
    /\ mounted
    /\ attempts = 2
    /\ pc[1] = "done" /\ AttemptHoldsNothing(1)
    /\ pc[2] = "getUserMedia"
    /\ micState = "requesting"
    /\ error = "null"

\* what a dropped message must leave alone
SchedulingUnchanged ==
    UNCHANGED <<nextStartTimeRef, sourcesRef, scheduled, micState, error, sess,
                sessionRef, outputAudioContextRef, octx>>

\* C16: a malformed audio payload, text that does not decode or a byte length
\* that is odd, is dropped: the step that handles it leaves the cursor, the
\* set of live buffers, the state and the session as they were, and the
\* valid chunks are scheduled as if the malformed ones had not arrived, each
\* from the cursor the valid chunk before it left (0 for the first), in the
\* order of delivery.
MalformedPayloadDropped ==
    [][/\ \A a \in Attempts, m \in PayloadMessages :
            (DecodeThrows(m) /\ onmessage(a, m)) =>
                SchedulingUnchanged /\ UNCHANGED continuations
       /\ (/\ continuations # <<>>
           /\ continuations[1].msg.audio = "badLength"
           /\ onmessageResumed) => SchedulingUnchanged
       /\ \A i \in 1..Len(scheduled') :
            /\ scheduled'[i].cursorBefore =
                    (IF i = 1 THEN 0 ELSE scheduled'[i - 1].cursorAfter)
            /\ scheduled'[i].start =
                    Max(scheduled'[i].cursorBefore, scheduled'[i].currentTime)
            /\ i > 1 => scheduled'[i - 1].id < scheduled'[i].id]_vars

\* a valid chunk, a malformed one and a valid one were delivered and handled:
\* the second valid chunk plays back to back with the first
ValidAfterMalformed ==
    /\ delivered = 3
    /\ continuations = <<>>
    /\ Len(scheduled) = 2
    /\ scheduled[1].id = 1
    /\ scheduled[2].id = 3
    /\ scheduled[2].start = scheduled[1].cursorAfter
    /\ micState = "ready"

\* C17: the text encoding is a byte-exact round trip: for every byte sequence
\* B, the empty one included, decode(encode(B)) is B, of the same length and
\* with the same byte at every index; decode does not throw on what encode
\* made.
TextRoundTrip ==
    /\ codecPc # "thrown"
    /\ codecPc = "output" =>
        /\ Len(codecOut) = Len(codecIn)
        /\ \A i \in 1..Len(codecIn) : codecOut[i] = codecIn[i]

\* four bytes, the last in a padded group of its own, came back
PaddedGroupCameBack ==
    /\ codecPc = "output"
    /\ codecIn = <<255, 0, 128, 64>>
    /\ codecText[Len(codecText)] = Pad
    /\ codecOut = codecIn

Abs(x) == IF x < 0 THEN -x ELSE x

\* C18: for every sample sequence with values in the closed interval [-1, 1],
\* createBlob followed by decodeAudioData on one channel gives a sequence of
\* the same length whose every value is within 1/32768, four 1/131072ths, of
\* the value it came from.
PcmRoundTripWithinTolerance ==
    /\ codecPc # "thrown"
    /\ codecPc = "output" =>
        /\ Len(codecOut) = Len(codecIn)
        /\ \A i \in 1..Len(codecIn) : Abs(codecOut[i] - codecIn[i]) <= 4

\* C19: after a stop and a later start, the first audio buffer of the new
\* session starts at the current clock time of the new output context: the
\* cursor the first session left does not delay it.  The buffers of the
\* first session are those it started while its context was running.
FirstBufferStartsAtClock ==
    \A i \in 1..Len(scheduled) :
        (/\ scheduled[i].sess = 2
         /\ scheduled[i].ctx = 2
         /\ releaseCalls["octx"][1] > 0
         /\ \A j \in 1..(i - 1) : scheduled[j].sess = 1 /\ scheduled[j].running) =>
            scheduled[i].start = scheduled[i].currentTime

\* The last thing that set the state was a stop, and the permission request of
\* attempt a is pending: stopSession alone sets the status "stopped", onclose
\* sets another status with its idle, and a start after the stop would have
\* set the state to requesting.  So the stop came while a was requesting.
StoppedWhileRequesting(a) ==
    /\ mounted
    /\ micState = "idle"
    /\ status = "stopped"
    /\ a \in PendingPermissions

\* C20: when stop was invoked while the permission request was pending, the
\* later grant is a no-op: the state stays idle, the granted stream is not
\* kept live, no audio context is created and no connect is issued.
LateGrantIsNoOp ==
    [][\A a \in Attempts : (StoppedWhileRequesting(a) /\ getUserMediaResolved(a)) =>
            /\ micState' = "idle"
            /\ stream'[a] # "live"
            /\ ictx' = ictx
            /\ octx' = octx
            /\ sess' = sess]_vars

TornDown(a) == stream[a] = "stopped"

\* C22: once the teardown has run, or the transport has reported onclose or
\* onerror, no captured chunk is passed to the send of the session: neither
\* a chunk whose deferred send was waiting nor a chunk captured afterwards.
NoSendAfterTeardown ==
    [][\A a \in Attempts :
        (TornDown(a) \/ sess[a] \in {"closed", "failed"}) => sent'[a] = sent[a]]_vars

\* the chunks of a sequence of sends
Chunks(q) == [i \in 1..Len(q) |-> q[i].chunk]

\* C23: no send is performed before the session handle has resolved: a chunk
\* captured after onopen and before the promise of connect is fulfilled waits,
\* and is sent once the promise is fulfilled; no chunk is sent on an
\* unresolved handle and none is dropped: every captured chunk is sent or
\* waiting, and none waits once the handle exists.
SendsWaitForTheHandle ==
    \A a \in Attempts :
        /\ sessionPromise[a] # "fulfilled" => sent[a] = <<>>
        /\ sessionPromise[a] = "fulfilled" => pendingSends[a] = <<>>
        /\ Chunks(sent[a]) \o pendingSends[a] = [i \in 1..captured[a] |-> i]

\* two chunks captured before the promise was fulfilled were sent after it
HeldChunksWereSent ==
    /\ sessionPromise[1] = "fulfilled"
    /\ sess[1] = "open"
    /\ Len(sent[1]) >= 2
    /\ sent[1][1].queued /\ sent[1][2].queued

\* C24: the chunks of a session are passed to the transport in the order of
\* their capture, whether they were captured before or after the handle
\* resolved and however the inbound messages fall between the captures.
SentInCaptureOrder ==
    \A a \in Attempts : \A i, j \in 1..Len(sent[a]) :
        i < j => sent[a][i].chunk < sent[a][j].chunk

\* two chunks that had waited and one captured after the handle resolved were
\* sent in that order, with an inbound message handled in between
WaitingThenDirectInOrder ==
    /\ Chunks(sent[1]) = <<1, 2, 3>>
    /\ sent[1][1].queued /\ sent[1][2].queued /\ ~sent[1][3].queued
    /\ Len(scheduled) >= 1

\* C25: one teardown performs every release step for whichever of the five
\* handles are stored: a session, stream, capture node, input or output
\* context whose handle is in its ref is released, once, and the ref is
\* cleared; a step whose ref is empty is skipped, makes no release call and
\* does not keep the other steps from running; after the teardown the five
\* refs are empty.
TeardownReleasesWhatIsHeld ==
    [][(stopSession \/ Unmount) =>
        /\ RefsAllNull'
        /\ IF sessionRef # 0
           THEN /\ sess'[sessionRef] \notin {"connecting", "open"}
                /\ releaseCalls'["session"][sessionRef] =
                        releaseCalls["session"][sessionRef] + 1
           ELSE releaseCalls'["session"] = releaseCalls["session"]
        /\ IF streamRef # 0
           THEN /\ stream'[streamRef] = "stopped"
                /\ releaseCalls'["stream"][streamRef] =
                        releaseCalls["stream"][streamRef] + 1
           ELSE releaseCalls'["stream"] = releaseCalls["stream"]
        /\ IF scriptProcessorRef # 0
           THEN /\ node'[scriptProcessorRef] = "disconnected"
                /\ releaseCalls'["node"][scriptProcessorRef] =
                        releaseCalls["node"][scriptProcessorRef] + 1
           ELSE releaseCalls'["node"] = releaseCalls["node"]
        /\ IF inputAudioContextRef # 0
           THEN /\ ictx'[inputAudioContextRef] = "closed"
                /\ releaseCalls'["ictx"][inputAudioContextRef] =
                        releaseCalls["ictx"][inputAudioContextRef] + 1
           ELSE releaseCalls'["ictx"] = releaseCalls["ictx"]
        /\ IF outputAudioContextRef # 0
           THEN /\ octx'[outputAudioContextRef] = "closed"
                /\ releaseCalls'["octx"][outputAudioContextRef] =
                        releaseCalls["octx"][outputAudioContextRef] + 1
           ELSE releaseCalls'["octx"] = releaseCalls["octx"]]_vars

\* a teardown ran while the stream and the contexts were stored and the
\* session handle and the capture node were not
TeardownOfPartialSet ==
    /\ RefsAllNull
    /\ stream[1] = "stopped" /\ ictx[1] = "closed" /\ octx[1] = "closed"
    /\ node[1] = "none"
    /\ releaseCalls["session"][1] = 0
    /\ releaseCalls["node"][1] = 0

\* C26: the live set of output buffers does not leak across a teardown: a
\* buffer still in the set when the session is torn down is stopped by the
\* teardown or removed later, so that once the output context of the session
\* is closed the set comes to hold no buffer of it.
LiveSetEmptiesAfterTeardown ==
    \A a \in Attempts :
        (octx[a] = "closed") ~> (\A s \in sourcesRef : s.ctx # a)

\* C27: the speaking indicator is debounced with a timeout of 2 seconds: the
\* handler of every speech fragment sets the indicator to 'ai', clears the
\* timer armed before and arms a new one, so that at most one timer is
\* pending and, while the message delivered last is a fragment less than 2
\* seconds old, the indicator is 'ai' and the pending timer is the one due 2
\* seconds after it; a timer never clears the indicator less than 2 seconds
\* after the most recent fragment; and the indicator is cleared once 2
\* seconds have passed since the last fragment.
IndicatorDebounced ==
    [][/\ Cardinality(timers') <= 1
       /\ (/\ mounted
           /\ continuations' = <<>>
           /\ lastWasFragment'
           /\ now' < lastFragmentAt' + TimeoutTicks) =>
            /\ liveSpeaker' = "ai"
            /\ timers' = {[id |-> liveSpeakerTimeoutRef',
                           due |-> lastFragmentAt' + TimeoutTicks]}
       /\ (\E t \in timers : timerFired(t)) => now >= lastFragmentAt + TimeoutTicks
       /\ (mounted /\ liveSpeaker' = "ai") => now' <= lastFragmentAt' + TimeoutTicks]_vars

\* C28: createBlob maps every sample s whose product s * 32768 lies in the
\* signed 16-bit range to the integer nearest to that product, for positive
\* and for negative s: the integer stored is at most half a step, two
\* 1/131072ths, away from the sample.
StoredIntegerIsNearest ==
    codecPc = "text" =>
        \A i \in 1..Len(codecIn) :
            (-131072 <= codecIn[i] /\ codecIn[i] <= 131068) =>
                Abs(4 * Int16At(decode(codecText), i) - codecIn[i]) <= 2

\* C29: an error message is stored only in the error state: in every state of
\* the mounted component where the state is idle, requesting or ready the
\* message is null, so that the status line, which shows the message in
\* place of the status whenever there is one, shows no stale error.
ErrorMessageOnlyInErrorState ==
    (mounted /\ micState \in {"idle", "requesting", "ready"}) => error = "null"
====
